---------------------------- MODULE Spec2Model ----------------------------
(***************************************************************************)
(* Verification model of CrazyDubya/agentsPolyM.                           *)
(*                                                                         *)
(*   Spec      the scheduler loop of agents/application/cron.py            *)
(*             (TradingAgent.__init__, Scheduler.start, __main__)          *)
(*   SpecScan  one call of ExpiringMarketsReporter                         *)
(*             .check_and_report_expiring_markets                          *)
(*   SpecTrade the one-best-trade cycle of agents/application/trade.py,    *)
(*             whose text is not part of the sources at hand: its stages   *)
(*             follow the design document, its error handler is the one    *)
(*             fix_and_optimize.py writes into trade.py                    *)
(*   SpecMock  one call of MockTrader.one_best_trade of demo_cli.py        *)
(*                                                                         *)
(* Time is counted in seconds.  cron.py drives its jobs through the calls  *)
(* every().monday.do(f), every().hour.do(f) and run_pending(); these are   *)
(* modelled by what that job-scheduling API does: a job is runnable when   *)
(* now >= next_run, a pass runs the runnable jobs sorted by next_run, a    *)
(* job is rescheduled from the time at which it returned, and an exception *)
(* of a job function is not caught by run_pending.                         *)
(***************************************************************************)
EXTENDS Integers, Sequences, FiniteSets, TLC

VARIABLES
    clock,        \* wall clock, seconds since TradingAgent was constructed
    startOffset,  \* seconds between Monday 00:00 and the construction
    jobs,         \* schedule.jobs, in registration order
    pc,           \* position of the main thread in Scheduler.start
    pending,      \* sorted(runnable_jobs) not yet run in the current pass
    executing,    \* job functions that have been called and have not returned
    jobElapsed,   \* seconds the executing job has been running
    passLog,      \* jobs invoked in the current pass, in invocation order
    passSnap,     \* schedule.jobs as the current pass found it
    passNow,      \* the clock when the current pass started
    ticks,        \* completed time.sleep(1) calls
    stopCause,    \* why Scheduler.start was left
    abandoned,    \* job functions unwound before they returned
    threshold,    \* ExpiringMarketsReporter.days_to_expiration_threshold
    markets,      \* all_markets, as get_all_markets returned it
    scanPc,       \* position in check_and_report_expiring_markets
    now,          \* the local `now` of the scan
    idx,          \* position of the for loop in all_markets (from 1)
    reports,      \* expiring_markets_reports
    newsLog,      \* requests made to the news client, in order
    scanOutcome,  \* what the call printed last
    scanErr,      \* the exception that left the call, if any
    fetchCalls,   \* calls of get_all_markets made by the scan
    listing,      \* the report listing the scan printed, item by item
    earlier,      \* the report list an earlier call built, until this call
                  \* binds its own
    tradePc,      \* stage of the running one_best_trade invocation
    tradeable,    \* the markets the tradeability filter kept
    filterReturned, \* whether the tradeability filter has returned
    forecasts,    \* the forecast obtained for each tradeable market
    selected,     \* position of the winning candidate, 0 when there is none
    execLog,      \* orders submitted since the scheduler fired the job
    tradeOutcome, \* the summary the cycle printed last
    schedCalls,   \* times the scheduler has fired the trade job
    tradeEntries, \* times one_best_trade has been entered
    selfCalls,    \* entries made by one_best_trade itself
    mockPc,       \* position in MockTrader.one_best_trade
    demoMarkets,  \* DEMO_MARKETS
    demoNews,     \* DEMO_NEWS
    bestMarket,   \* position in DEMO_MARKETS of best_market, 0 before it is set
    avgSentiment, \* avg_sentiment
    aiPrediction, \* ai_prediction
    tradeSignal,  \* the trade signal printed, if any
    demoProgram,  \* which demo runs: demo.py or demo_auto.py
    demoPc,       \* position in that demo's prediction and execution sections
    demoPrices,   \* prices[0] of the demo's markets
    predictions,  \* ai_predictions, in the order they were made
    predIdx,      \* position of the execution loop in ai_predictions (from 1)
    executedTrades, \* the trades the execution loop has made
    newsPc,       \* position in MockNews.get_articles_for_cli_keywords
    keywords,     \* its argument, as the texts between the commas
    keywordList,  \* keyword_list
    articlePos,   \* position of the for loop in DEMO_NEWS (from 1)
    relevantNews, \* relevant_news, as positions in DEMO_NEWS
    returnedNews, \* the list the call returned, as positions in DEMO_NEWS
    fixPc,        \* position in fix_trade_module
    tradeFile,    \* agents/application/trade.py: whether it exists, its text
    content,      \* the local `content`
    fixLog,       \* the lines the running call has printed
    fixRuns,      \* calls of fix_trade_module made so far
    fileBefore    \* the text of trade.py at the start of each call so far

schedOnly == <<startOffset, jobs, pc, pending, executing, jobElapsed,
               passLog, passSnap, passNow, ticks, stopCause, abandoned>>

scanVars == <<threshold, markets, scanPc, now, idx, reports, newsLog,
              scanOutcome, scanErr, fetchCalls, listing, earlier>>

tradeVars == <<tradePc, tradeable, filterReturned, forecasts, selected, execLog,
               tradeOutcome, schedCalls, tradeEntries, selfCalls>>

mockVars == <<mockPc, demoMarkets, demoNews, bestMarket, avgSentiment,
              aiPrediction, tradeSignal>>

demoVars == <<demoProgram, demoPc, demoPrices, predictions, predIdx,
              executedTrades>>

newsVars == <<newsPc, keywords, keywordList, articlePos, relevantNews,
              returnedNews>>

fixVars == <<fixPc, tradeFile, content, fixLog, fixRuns, fileBefore>>

notSched == <<scanVars, tradeVars, mockVars, demoVars, newsVars, fixVars>>

notScan == <<schedOnly, tradeVars, mockVars, demoVars, newsVars, fixVars>>

notTrade == <<clock, schedOnly, scanVars, mockVars, demoVars, newsVars,
              fixVars>>

notMock == <<schedOnly, scanVars, tradeVars, demoVars, newsVars, fixVars>>

notDemo == <<clock, schedOnly, scanVars, tradeVars, mockVars, newsVars,
             fixVars>>

notNews == <<clock, schedOnly, scanVars, tradeVars, mockVars, demoVars,
             fixVars>>

notFix == <<clock, schedOnly, scanVars, tradeVars, mockVars, demoVars,
            newsVars>>

vars == <<clock, schedOnly, scanVars, tradeVars, mockVars, demoVars,
          newsVars, fixVars>>

-----------------------------------------------------------------------------
(* Bounds of the model *)

MaxTicks == 4
MaxMarkets == 2
SmallThreshold == 1
MaxCandidates == 2
MaxCycles == 2
MaxDemoMarkets == 2
MaxKeywords == 2
MaxLines == 3
MaxFixRuns == 2

(* Program constants *)

TickSeconds == 1
HourSeconds == 3600
DaySeconds == 86400
WeekDays == 7
Monday == 0
NoDay == -1
Never == -1
DefaultThreshold == 35
MinEdgePct == 5
PredictionFloor == 500
PredictionCeiling == 9500
MaxPositionSize == 1000
DemoMinEdge == 1000
AutoMaxPositionSize == 800

WeekSeconds == WeekDays * DaySeconds

-----------------------------------------------------------------------------
(* Helpers *)

Range(s) == {s[i] : i \in 1..Len(s)}

Count(s, x) == Cardinality({i \in 1..Len(s) : s[i] = x})

-----------------------------------------------------------------------------
(* The job registry *)

\* timedelta(**{unit: 1})
Period(job) == IF job.unit = "weeks" THEN WeekSeconds ELSE HourSeconds

\* Job._schedule_next_run with the clock at `at` and the registry's
\* construction offset `off`
NextRunCatchUp(job, at, off) == job.next_run + Period(job)

NextRun(job, at, off) ==
    IF job.start_day = NoDay
    THEN at + Period(job)
    ELSE LET first == at + Period(job)
             wd == ((off + first) \div DaySeconds) % WeekDays
             d0 == job.start_day - wd
             days_ahead == IF d0 <= 0 THEN d0 + WeekDays ELSE d0
         IN  first + days_ahead * DaySeconds - Period(job)

\* every().monday.do(f) / every().hour.do(f) at construction time 0
Register(func, unit, start_day, off) ==
    LET j == [func |-> func, unit |-> unit, start_day |-> start_day,
              next_run |-> Never, last_run |-> Never]
    IN  [j EXCEPT !.next_run = NextRun(j, 0, off)]

RegisteredJobsTradeHourly(off) ==
    << Register("one_best_trade", "hours", NoDay, off),
       Register("check_and_report_expiring_markets", "hours", NoDay, off) >>

RegisteredJobs(off) ==
    << Register("one_best_trade", "weeks", Monday, off),
       Register("check_and_report_expiring_markets", "hours", NoDay, off) >>

\* Job.run after the job function returned: last_run and next_run of that
\* job are set, no other job of the registry is touched
RescheduledAll(js, j, at, off) ==
    [k \in 1..Len(js) |->
        [js[k] EXCEPT !.last_run = at, !.next_run = NextRun(js[k], at, off)]]

Rescheduled(js, j, at, off) ==
    [js EXCEPT ![j].last_run = at,
               ![j].next_run = NextRun(js[j], at, off)]

\* Job.should_run
ShouldRun(job, at) == at >= job.next_run

\* Job.__lt__ with the stable order of sorted()
BeforeRegistration(js, j, k) == j <= k

Before(js, j, k) ==
    \/ js[j].next_run < js[k].next_run
    \/ js[j].next_run = js[k].next_run /\ j <= k

RECURSIVE SortJobs(_, _)
SortJobs(js, S) ==
    IF S = {} THEN <<>>
    ELSE LET m == CHOOSE j \in S : \A k \in S : Before(js, j, k)
         IN  <<m>> \o SortJobs(js, S \ {m})

\* sorted(job for job in self.jobs if job.should_run)
Runnable(js, at) ==
    SortJobs(js, {j \in 1..Len(js) : ShouldRun(js[j], at)})

\* a job function that lets an exception escape: the expiration scan catches
\* only ValueError around its date handling
MayRaise(job) == job.func = "check_and_report_expiring_markets"

-----------------------------------------------------------------------------
(* The expiration scan: its data *)

\* Market.end as the gateway supplies it.  A text in ISO format shows a
\* wall-clock reading t (seconds on the axis of `clock`, which runs in UTC)
\* in one of the forms
\*     "Z"      ...T00:00:00Z            "utc"    ...T00:00:00+00:00
\*     "east"   ...T00:00:00+01:00       "naive"  ...T00:00:00
\*     "ZZ"     ...Z00:00:00Z            "Zutc"   ...Z00:00:00+00:00
\* ("ZZ" and "Zutc" have the letter Z, not T, between date and time).
\* "bad" is a text that is no ISO date, such as "...+00:0000:00:00+00:00";
\* "none" is the value None.
EndOffsets(T) ==
    {-1, 0, DaySeconds - 1, T * DaySeconds, T * DaySeconds + DaySeconds - 1,
     (T + 1) * DaySeconds}

EndValues(T) ==
    {[form |-> "Z", t |-> o] : o \in EndOffsets(T)}
    \cup {[form |-> "naive", t |-> o] : o \in {0, T * DaySeconds}}
    \cup {[form |-> "east", t |-> o] : o \in {0, (T + 1) * DaySeconds}}
    \cup {[form |-> "utc", t |-> DaySeconds - 1]}
    \cup {[form |-> "bad", t |-> 0], [form |-> "none", t |-> 0]}

\* date(y, mo, d).toordinal(), the day count that datetime subtraction uses
IsLeap(y) == y % 4 = 0 /\ (y % 100 # 0 \/ y % 400 = 0)

DaysInMonth(y, mo) ==
    CASE mo = 2               -> IF IsLeap(y) THEN 29 ELSE 28
      [] mo \in {4, 6, 9, 11} -> 30
      [] OTHER                -> 31

RECURSIVE DaysBeforeMonth(_, _)
DaysBeforeMonth(y, mo) ==
    IF mo = 1 THEN 0 ELSE DaysBeforeMonth(y, mo - 1) + DaysInMonth(y, mo - 1)

DaysBeforeYear(y) ==
    (y - 1) * 365 + (y - 1) \div 4 - (y - 1) \div 100 + (y - 1) \div 400

ToOrdinal(y, mo, d) == DaysBeforeYear(y) + DaysBeforeMonth(y, mo) + d

\* the text "2024-01-01T00:00:00Z", read by a scan whose clock shows
\* 2023-12-20T00:00:00Z when it starts (clock = 0)
ScenarioEnd ==
    [form |-> "Z",
     t |-> (ToOrdinal(2024, 1, 1) - ToOrdinal(2023, 12, 20)) * DaySeconds]

\* further end values, supplied with active markets only
MoreEndValues(T) ==
    {[form |-> "ZZ", t |-> 0]}
    \cup (IF T = DefaultThreshold THEN {ScenarioEnd} ELSE {})

\* Market.outcome_prices: the text of a list of two prices, in hundredths
ValidPrices == [kind |-> "list", elems |-> <<[type |-> "float", v |-> 50],
                                             [type |-> "float", v |-> 50]>>]

\* Market.outcome_prices values that are not the text of a list of numbers:
\* '[0.5, "x"]', '(0.5, 0.5)', '[0.5,', 'foo', None and '{[1]: 2}'
MalformedPrices ==
    {[kind |-> "list", elems |-> <<[type |-> "float", v |-> 50],
                                   [type |-> "str", v |-> 50]>>],
     [kind |-> "tuple", elems |-> <<[type |-> "float", v |-> 50],
                                    [type |-> "float", v |-> 50]>>],
     [kind |-> "syntax", elems |-> <<>>],
     [kind |-> "name", elems |-> <<>>],
     [kind |-> "none", elems |-> <<>>],
     [kind |-> "unhashable", elems |-> <<>>]}

\* other texts of lists of numbers: '[True, 0.5]', and a list whose first
\* element is an int literal of 401 digits
OtherPrices ==
    {[kind |-> "list", elems |-> <<[type |-> "bool", v |-> 1],
                                   [type |-> "float", v |-> 50]>>],
     [kind |-> "list", elems |-> <<[type |-> "bigint", v |-> 0],
                                   [type |-> "float", v |-> 50]>>]}

\* the end values supplied with inactive markets
InactiveEndValues(T) ==
    {[form |-> "Z", t |-> 0], [form |-> "Z", t |-> (T + 1) * DaySeconds],
     [form |-> "none", t |-> 0]}

\* the lists get_all_markets can return for a reporter with threshold T;
\* inactive markets and odds texts other than the usual one are supplied to
\* the reporter with the small threshold
MarketsAt(T, i) ==
    {[id |-> i, question |-> i, end |-> e, active |-> TRUE,
      outcome_prices |-> ValidPrices] : e \in EndValues(T)}
    \cup {[id |-> i, question |-> i, end |-> e, active |-> FALSE,
           outcome_prices |-> ValidPrices] :
              e \in IF T = DefaultThreshold THEN {} ELSE InactiveEndValues(T)}
    \cup {[id |-> i, question |-> i, end |-> e, active |-> TRUE,
           outcome_prices |-> ValidPrices] : e \in MoreEndValues(T)}
    \cup {[id |-> i, question |-> i, end |-> [form |-> "Z", t |-> 0],
           active |-> TRUE, outcome_prices |-> p] :
              p \in IF T = DefaultThreshold THEN {}
                    ELSE MalformedPrices \cup OtherPrices}

MarketLists(T) ==
    {<<>>}
    \cup UNION {
        {ms \in [1..n -> UNION {MarketsAt(T, i) : i \in 1..n}] :
            \A i \in 1..n : ms[i].id = i} : n \in 1..MaxMarkets}

\* what the news client answers to one request
NewsResponses == {[ok |-> FALSE, articles |-> <<>>],
                  [ok |-> TRUE, articles |-> <<>>],
                  [ok |-> TRUE, articles |-> <<"a1", "a2">>],
                  [ok |-> TRUE, articles |-> <<"b1", "b2", "b3", "b4">>]}

\* how long one news request can take
NewsDelays == {0, DaySeconds}

\* one request to the news client: its answer and its duration; of the
\* slow requests only one answer is kept
NewsCalls ==
    {c \in [resp : NewsResponses, delay : NewsDelays] :
        c.delay = 0 \/ c.resp.articles = <<"a1", "a2">>}

\* the requests that can be made for the market at position pos: the first
\* market's request can also be answered with exactly three articles
NewsCallsFor(pos) ==
    NewsCalls
    \cup IF pos = 1
         THEN {[resp |-> [ok |-> TRUE, articles |-> <<"c1", "c2", "c3">>],
                delay |-> 0]}
         ELSE {}

Thresholds == {SmallThreshold, DefaultThreshold}

\* what an earlier call of the scan can have built: nothing, or one item
EarlierReports ==
    {<<>>,
     <<[pos |-> 1, market_id |-> 1, question |-> 1,
        expiration_date |-> [form |-> "Z", t |-> 0], days_remaining |-> 0,
        odds |-> <<50, 50>>, news_articles |-> <<"a1", "a2">>,
        action_filed |->
            "No specific action defined or taken by this script."]>>}

-----------------------------------------------------------------------------
(* The expiration scan: its functions *)

\* market.end.replace('Z', '+00:00'): every Z of the text is replaced
ReplaceZ(e) ==
    IF e.form = "none" THEN [status |-> "AttributeError", text |-> e]
    ELSE [status |-> "ok",
          text |-> CASE e.form = "Z"              -> [e EXCEPT !.form = "utc"]
                     [] e.form \in {"ZZ", "Zutc"} -> [e EXCEPT !.form = "bad"]
                     [] OTHER                     -> e]

\* datetime.fromisoformat: the reading, its UTC offset when it has one
FromIsoFormat(e) ==
    CASE e.form \in {"utc", "Zutc"}
                          -> [status |-> "ok", wall |-> e.t, aware |-> TRUE,
                              offset |-> 0]
      [] e.form = "east"  -> [status |-> "ok", wall |-> e.t, aware |-> TRUE,
                              offset |-> HourSeconds]
      [] e.form = "naive" -> [status |-> "ok", wall |-> e.t, aware |-> FALSE,
                              offset |-> 0]
      [] OTHER            -> [status |-> "ValueError", wall |-> 0,
                              aware |-> FALSE, offset |-> 0]

\* lines 70-73: a reading without offset is given the offset of UTC
AttachUtcNever(d) == d

AttachUtc(d) ==
    IF d.aware THEN d ELSE [d EXCEPT !.aware = TRUE, !.offset = 0]

\* lines 64-77: the end date as an instant and whether it carries an offset,
\* or the exception raised
ParseEnd(e) ==
    LET r == ReplaceZ(e)
        d == FromIsoFormat(r.text)
        a == AttachUtc(d)
    IN  IF r.status # "ok"
        THEN [status |-> r.status, instant |-> 0, aware |-> FALSE]
        ELSE IF d.status # "ok"
        THEN [status |-> d.status, instant |-> 0, aware |-> FALSE]
        ELSE [status |-> "ok", instant |-> a.wall - a.offset,
              aware |-> a.aware]

\* the exceptions the try statement around the date handling catches
Caught(status) == status = "ValueError"

\* (market_end_dt_obj - now).days
DaysUntilCountingToday(instant, n) == (instant - n) \div DaySeconds + 1

\* whole days counted toward zero instead of downward
DaysUntilTruncating(instant, n) ==
    IF instant >= n THEN (instant - n) \div DaySeconds
    ELSE 0 - ((n - instant) \div DaySeconds)

DaysUntil(instant, n) == (instant - n) \div DaySeconds

\* the instant line 80 subtracts: the local `now` that line 58 set before
\* the loop, not a new reading of the clock
ReferenceInstantReread(captured, current) == current

ReferenceInstant(captured, current) == captured

\* 0 <= days_until_expiration <= self.days_to_expiration_threshold
InWindowNoLowerBound(days, T) == days <= T

InWindow(days, T) == 0 <= days /\ days <= T

\* the test `if not market.active: continue`
SkippedNever(m) == FALSE

Skipped(m) == ~m.active

\* ast.literal_eval: the value, or the exception it raises
LiteralEval(p) ==
    CASE p.kind \in {"list", "tuple"} -> [status |-> "ok", value |-> p]
      [] p.kind = "syntax"            -> [status |-> "SyntaxError", value |-> p]
      [] p.kind = "unhashable"        -> [status |-> "TypeError", value |-> p]
      [] OTHER                        -> [status |-> "ValueError", value |-> p]

\* except (ValueError, SyntaxError) in _parse_outcome_prices
OddsCaught(status) == status \in {"ValueError", "SyntaxError"}

\* isinstance(p, (int, float)): bool is a subclass of int
Numeric(el) == el.type \in {"int", "float", "bool", "bigint"}

\* float(p), in hundredths: True is 1.0 and False is 0.0
ToFloat(el) ==
    IF el.type = "bool" THEN (IF el.v = 1 THEN 100 ELSE 0) ELSE el.v

\* float(p) raises OverflowError for an int beyond the float range; the
\* comprehension is reached only when every element passed the test
Overflows(elems) ==
    /\ \A k \in 1..Len(elems) : Numeric(elems[k])
    /\ \E k \in 1..Len(elems) : elems[k].type = "bigint"

\* lines 20-21: the floats of all the elements, or nothing
FloatsOfNumeric(elems) ==
    LET kept == SelectSeq(elems, Numeric)
    IN  [k \in 1..Len(kept) |-> ToFloat(kept[k])]

Floats(elems) ==
    IF \A k \in 1..Len(elems) : Numeric(elems[k])
    THEN [k \in 1..Len(elems) |-> ToFloat(elems[k])]
    ELSE <<>>

\* _parse_outcome_prices: the odds it returns, or the exception that leaves it
ParseOutcomePrices(p) ==
    LET r == LiteralEval(p)
    IN  IF r.status = "ok"
        THEN IF r.value.kind = "list" /\ Overflows(r.value.elems)
             THEN [status |-> "OverflowError", odds |-> <<>>]
             ELSE [status |-> "ok",
                   odds |-> IF r.value.kind = "list"
                            THEN Floats(r.value.elems)
                            ELSE <<>>]
        ELSE IF OddsCaught(r.status)
        THEN [status |-> "ok", odds |-> <<>>]
        ELSE [status |-> r.status, odds |-> <<>>]

\* line 86 and line 35: one call of get_articles_for_cli_keywords for the
\* market, with its question as the keywords
RequestedTwice(log, pos, m, resp) ==
    log \o << [pos |-> pos, query |-> m.question, resp |-> resp],
              [pos |-> pos, query |-> m.question, resp |-> resp] >>

Requested(log, pos, m, resp) ==
    Append(log, [pos |-> pos, query |-> m.question, resp |-> resp])

\* _fetch_news_for_market: the articles, or [] when the client raised
FetchNewsNoArticles(resp) == <<>>

FetchNews(resp) == IF resp.ok THEN resp.articles ELSE <<>>

\* expiring_markets_reports = [] at the start of every call, whatever list
\* an earlier call built
NewReportListKept(old) == old

NewReportList(old) == <<>>

\* expiring_markets_reports.append(report_item)
AddReportFirst(rs, item) == <<item>> \o rs

AddReport(rs, item) == Append(rs, item)

\* lines 110-119: the article lines printed for one report item, and the
\* number in the "... and N more." line (NoMoreLine when it is not printed)
NoMoreLine == -1

ShownArticles(articles) ==
    SubSeq(articles, 1, IF Len(articles) > 2 THEN 3 ELSE Len(articles))

MoreCountPastThree(articles) ==
    IF Len(articles) > 3 THEN Len(articles) - 3 ELSE NoMoreLine

MoreCount(articles) ==
    IF Len(articles) > 2 THEN Len(articles) - 3 ELSE NoMoreLine

\* lines 103-120: one block per report item, in list order
Listing(rs) ==
    [k \in 1..Len(rs) |->
        [pos |-> rs[k].pos, market_id |-> rs[k].market_id,
         question |-> rs[k].question,
         expiration_date |-> rs[k].expiration_date,
         days_remaining |-> rs[k].days_remaining, odds |-> rs[k].odds,
         action_filed |-> rs[k].action_filed,
         shown |-> ShownArticles(rs[k].news_articles),
         more |-> MoreCount(rs[k].news_articles)]]

\* lines 88-96, with the normalized end text in place of market.end
ReportItemNormalized(m, pos, days, news) ==
    [pos |-> pos, market_id |-> m.id, question |-> m.question,
     expiration_date |-> ReplaceZ(m.end).text, days_remaining |-> days,
     odds |-> ParseOutcomePrices(m.outcome_prices).odds,
     news_articles |-> news,
     action_filed |-> "No specific action defined or taken by this script."]

ReportItem(m, pos, days, news) ==
    [pos |-> pos, market_id |-> m.id, question |-> m.question,
     expiration_date |-> m.end, days_remaining |-> days,
     odds |-> ParseOutcomePrices(m.outcome_prices).odds,
     news_articles |-> news,
     action_filed |-> "No specific action defined or taken by this script."]

-----------------------------------------------------------------------------
(* check_and_report_expiring_markets *)

ScanIdle ==
    /\ threshold = DefaultThreshold
    /\ markets = <<>>
    /\ scanPc = "idle"
    /\ now = 0
    /\ idx = 0
    /\ reports = <<>>
    /\ newsLog = <<>>
    /\ scanOutcome = "none"
    /\ scanErr = "none"
    /\ fetchCalls = 0
    /\ listing = <<>>
    /\ earlier = <<>>

TradeIdle ==
    /\ tradePc = "idle"
    /\ tradeable = <<>>
    /\ filterReturned = FALSE
    /\ forecasts = <<>>
    /\ selected = 0
    /\ execLog = <<>>
    /\ tradeOutcome = "none"
    /\ schedCalls = 0
    /\ tradeEntries = 0
    /\ selfCalls = 0

MockIdle ==
    /\ mockPc = "idle"
    /\ demoMarkets = <<>>
    /\ demoNews = <<>>
    /\ bestMarket = 0
    /\ avgSentiment = 0
    /\ aiPrediction = 0
    /\ tradeSignal = [side |-> "none", size |-> 0]

DemoIdle ==
    /\ demoProgram = "none"
    /\ demoPc = "idle"
    /\ demoPrices = <<>>
    /\ predictions = <<>>
    /\ predIdx = 0
    /\ executedTrades = <<>>

FixIdle ==
    /\ fixPc = "idle"
    /\ tradeFile = [exists |-> FALSE, text |-> <<>>]
    /\ content = <<>>
    /\ fixLog = {}
    /\ fixRuns = 0
    /\ fileBefore = <<>>

NewsIdle ==
    /\ newsPc = "idle"
    /\ keywords = <<>>
    /\ keywordList = <<>>
    /\ articlePos = 0
    /\ relevantNews = <<>>
    /\ returnedNews = <<>>

SchedIdle ==
    /\ startOffset = 0
    /\ jobs = <<>>
    /\ pc = "idle"
    /\ pending = <<>>
    /\ executing = <<>>
    /\ jobElapsed = 0
    /\ passLog = <<>>
    /\ passSnap = <<>>
    /\ passNow = 0
    /\ ticks = 0
    /\ stopCause = "none"
    /\ abandoned = <<>>

ScanInit ==
    /\ clock = 0
    /\ SchedIdle
    /\ TradeIdle
    /\ MockIdle
    /\ DemoIdle
    /\ NewsIdle
    /\ FixIdle
    /\ threshold \in Thresholds
    /\ markets = <<>>
    /\ scanPc = "start"
    /\ now = 0
    /\ idx = 0
    /\ reports = <<>>
    /\ newsLog = <<>>
    /\ scanOutcome = "none"
    /\ scanErr = "none"
    /\ fetchCalls = 0
    /\ listing = <<>>
    /\ earlier \in EarlierReports

\* where the call stands after `except Exception` around get_all_markets:
\* it has printed the error and returned
AfterFetchErrorRetry == "start"

AfterFetchError == "done"

\* get_all_markets raises: print and return
ScanFetchError ==
    /\ scanPc = "start"
    /\ fetchCalls' = fetchCalls + 1
    /\ scanPc' = AfterFetchError
    /\ scanOutcome' = "fetch_error"
    /\ reports' = NewReportList(earlier)
    /\ earlier' = <<>>
    /\ UNCHANGED <<clock, threshold, markets, now, idx, newsLog,
                   scanErr, listing, notScan>>

\* get_all_markets returns; an empty list ends the call, otherwise `now`
\* is read and the loop starts
ScanFetch ==
    /\ scanPc = "start"
    /\ fetchCalls' = fetchCalls + 1
    /\ \E ms \in MarketLists(threshold) :
          /\ markets' = ms
          /\ IF ms = <<>>
             THEN /\ scanPc' = "done"
                  /\ scanOutcome' = "no_markets"
                  /\ UNCHANGED <<now, idx>>
             ELSE /\ scanPc' = "scan"
                  /\ now' = clock
                  /\ idx' = 1
                  /\ UNCHANGED scanOutcome
    /\ reports' = NewReportList(earlier)
    /\ earlier' = <<>>
    /\ UNCHANGED <<clock, threshold, newsLog, scanErr,
                   listing, notScan>>

\* one iteration of `for market in all_markets` that reaches `continue`
ScanSkip ==
    /\ scanPc = "scan"
    /\ idx <= Len(markets)
    /\ LET m == markets[idx]
           e == ParseEnd(m.end)
       IN  \/ Skipped(m)
           \/ ~Skipped(m) /\ e.status # "ok" /\ Caught(e.status)
    /\ idx' = idx + 1
    /\ UNCHANGED <<clock, threshold, markets, scanPc, now, reports, newsLog,
                   scanOutcome, scanErr, fetchCalls,
                   listing, earlier, notScan>>

\* one iteration in which the date handling raises what the try statement
\* does not catch, or the subtraction at line 80 meets a reading without
\* offset, or _parse_outcome_prices raises what its own try statement does
\* not catch: the exception leaves the call
ScanRaise ==
    /\ scanPc = "scan"
    /\ idx <= Len(markets)
    /\ LET m == markets[idx]
           e == ParseEnd(m.end)
           o == ParseOutcomePrices(m.outcome_prices)
       IN  /\ ~Skipped(m)
           /\ \/ /\ e.status # "ok"
                 /\ ~Caught(e.status)
                 /\ scanErr' = e.status
              \/ /\ e.status = "ok"
                 /\ ~e.aware
                 /\ scanErr' = "TypeError"
              \/ /\ e.status = "ok"
                 /\ e.aware
                 /\ InWindow(DaysUntil(e.instant, ReferenceInstant(now, clock)), threshold)
                 /\ o.status # "ok"
                 /\ scanErr' = o.status
    /\ scanPc' = "raised"
    /\ UNCHANGED <<clock, threshold, markets, now, idx, reports, newsLog,
                   scanOutcome, fetchCalls,
                   listing, earlier, notScan>>

\* one iteration for a market whose end date parses and lies outside the
\* window
ScanOutside ==
    /\ scanPc = "scan"
    /\ idx <= Len(markets)
    /\ LET m == markets[idx]
           e == ParseEnd(m.end)
       IN  /\ ~Skipped(m)
           /\ e.status = "ok"
           /\ e.aware
           /\ ~InWindow(DaysUntil(e.instant, ReferenceInstant(now, clock)), threshold)
    /\ idx' = idx + 1
    /\ UNCHANGED <<clock, threshold, markets, scanPc, now, reports, newsLog,
                   scanOutcome, scanErr, fetchCalls,
                   listing, earlier, notScan>>

\* one iteration for a market inside the window: odds, news, report item
ScanInclude ==
    /\ scanPc = "scan"
    /\ idx <= Len(markets)
    /\ LET m == markets[idx]
           e == ParseEnd(m.end)
           days == DaysUntil(e.instant, ReferenceInstant(now, clock))
       IN  /\ ~Skipped(m)
           /\ e.status = "ok"
           /\ e.aware
           /\ InWindow(days, threshold)
           /\ ParseOutcomePrices(m.outcome_prices).status = "ok"
           /\ \E c \in NewsCallsFor(idx) :
                 /\ newsLog' = Requested(newsLog, idx, m, c.resp)
                 /\ clock' = clock + c.delay
                 /\ reports' = AddReport(reports,
                                         ReportItem(m, idx, days,
                                                    FetchNews(c.resp)))
    /\ idx' = idx + 1
    /\ UNCHANGED <<threshold, markets, scanPc, now, scanOutcome, scanErr,
                   fetchCalls,
                   listing, earlier, notScan>>

\* after the loop: the "nothing expiring" message or the report listing
ScanFinish ==
    /\ scanPc = "scan"
    /\ idx > Len(markets)
    /\ scanPc' = "done"
    /\ scanOutcome' = IF reports = <<>> THEN "nothing_expiring" ELSE "report"
    /\ listing' = Listing(reports)
    /\ UNCHANGED <<clock, threshold, markets, now, idx, reports, newsLog,
                   scanErr, fetchCalls, earlier, notScan>>

ScanNext ==
    \/ ScanFetchError
    \/ ScanFetch
    \/ ScanSkip
    \/ ScanRaise
    \/ ScanOutside
    \/ ScanInclude
    \/ ScanFinish

SpecScan == ScanInit /\ [][ScanNext]_vars

-----------------------------------------------------------------------------
(* The one-best-trade cycle *)

\* Prices, probabilities and confidences are in hundredths.
TradeableMarkets(i) == {[id |-> i, price |-> 50, volume |-> v] : v \in {1, 2}}

TradeableLists ==
    {<<>>}
    \cup UNION {
        {ms \in [1..n -> UNION {TradeableMarkets(i) : i \in 1..n}] :
            \A i \in 1..n : ms[i].id = i} : n \in 1..MaxCandidates}

Forecasts == [probability : {42, 47, 50, 55, 58}, confidence : {60, 80}]

Abs(x) == IF x < 0 THEN -x ELSE x

\* edge = |forecast probability - market price of the primary outcome|
Edge(m, f) == Abs(f.probability - m.price)

\* candidate i wins against candidate j: greater edge, then higher
\* confidence, then higher volume
Better(ms, fs, i, j) ==
    \/ Edge(ms[i], fs[i]) > Edge(ms[j], fs[j])
    \/ /\ Edge(ms[i], fs[i]) = Edge(ms[j], fs[j])
       /\ \/ fs[i].confidence > fs[j].confidence
          \/ /\ fs[i].confidence = fs[j].confidence
             /\ ms[i].volume > ms[j].volume

\* the single winning candidate; the earlier one when nothing separates two
SelectBest(ms, fs) ==
    CHOOSE i \in 1..Len(ms) :
        /\ \A j \in 1..Len(ms) : ~Better(ms, fs, j, i)
        /\ \A j \in 1..(i - 1) : Better(ms, fs, i, j)

\* the stage that follows FILTER: with nothing tradeable the cycle goes to
\* its "no action" end, without scoring
StageAfterFilterAlwaysScore(ms) == "SCORE"

StageAfterFilter(ms) == IF ms = <<>> THEN "NO_ACTION" ELSE "SCORE"

\* the handler of one_best_trade once an error was caught, as
\* fix_trade_module leaves it: print, return None
HandlerRetrying == [pc |-> "FETCH", selfCall |-> 1]

Handler == [pc |-> "DONE", selfCall |-> 0]

\* an error caught at any stage
OnError(outcome) ==
    /\ tradePc' = Handler.pc
    /\ selfCalls' = selfCalls + Handler.selfCall
    /\ tradeEntries' = tradeEntries + Handler.selfCall
    /\ tradeOutcome' = outcome

TradeInit ==
    /\ clock = 0
    /\ SchedIdle
    /\ ScanIdle
    /\ TradeIdle
    /\ MockIdle
    /\ DemoIdle
    /\ NewsIdle
    /\ FixIdle

\* the scheduler fires the weekly job
TradeInvoke ==
    /\ tradePc \in {"idle", "DONE"}
    /\ schedCalls < MaxCycles
    /\ schedCalls' = schedCalls + 1
    /\ tradeEntries' = tradeEntries + 1
    /\ tradePc' = "FETCH"
    /\ tradeable' = <<>>
    /\ filterReturned' = FALSE
    /\ forecasts' = <<>>
    /\ selected' = 0
    /\ execLog' = <<>>
    /\ tradeOutcome' = "none"
    /\ UNCHANGED <<selfCalls, notTrade>>

\* FETCH: get_all_markets
TradeFetch ==
    /\ tradePc = "FETCH"
    /\ \/ /\ OnError("error")
          /\ UNCHANGED <<tradeable, filterReturned, forecasts, selected,
                         execLog>>
       \/ /\ tradePc' = "FILTER"
          /\ tradeable' = <<>>
          /\ filterReturned' = FALSE
          /\ forecasts' = <<>>
          /\ selected' = 0
          /\ UNCHANGED <<execLog, tradeOutcome, tradeEntries, selfCalls>>
    /\ UNCHANGED <<schedCalls, notTrade>>

\* FILTER: filter_markets_for_trading; nothing tradeable ends the cycle
TradeFilter ==
    /\ tradePc = "FILTER"
    /\ \/ /\ OnError("error")
          /\ UNCHANGED <<tradeable, filterReturned>>
       \/ \E ms \in TradeableLists :
             /\ tradeable' = ms
             /\ filterReturned' = TRUE
             /\ tradePc' = StageAfterFilter(ms)
             /\ UNCHANGED <<tradeOutcome, tradeEntries, selfCalls>>
    /\ UNCHANGED <<forecasts, selected, execLog, schedCalls, notTrade>>

\* SCORE: one forecast per tradeable candidate
TradeScore ==
    /\ tradePc = "SCORE"
    /\ \/ /\ OnError("error")
          /\ UNCHANGED forecasts
       \/ \E fs \in [1..Len(tradeable) -> Forecasts] :
             /\ forecasts' = fs
             /\ tradePc' = "SELECT"
             /\ UNCHANGED <<tradeOutcome, tradeEntries, selfCalls>>
    /\ UNCHANGED <<tradeable, filterReturned, selected, execLog, schedCalls,
                   notTrade>>

\* SELECT: the candidate of maximum edge, against the minimum edge
TradeSelect ==
    /\ tradePc = "SELECT"
    /\ LET best == SelectBest(tradeable, forecasts)
       IN  /\ selected' = best
           /\ tradePc' = IF Edge(tradeable[best], forecasts[best]) < MinEdgePct
                         THEN "NO_ACTION" ELSE "EXECUTE"
    /\ UNCHANGED <<tradeable, filterReturned, forecasts, execLog,
                   tradeOutcome, schedCalls, tradeEntries, selfCalls,
                   notTrade>>

\* NO_ACTION: the explicit "no action" summary
TradeNoAction ==
    /\ tradePc = "NO_ACTION"
    /\ tradePc' = "DONE"
    /\ tradeOutcome' = "no_action"
    /\ UNCHANGED <<tradeable, filterReturned, forecasts, selected, execLog,
                   schedCalls, tradeEntries, selfCalls, notTrade>>

\* EXECUTE: one order for the selected candidate; a failed submission is
\* an error of the cycle
TradeExecute ==
    /\ tradePc = "EXECUTE"
    /\ execLog' = Append(execLog, tradeable[selected].id)
    /\ \/ OnError("trade_failed")
       \/ /\ tradePc' = "DONE"
          /\ tradeOutcome' = "trade_executed"
          /\ UNCHANGED <<tradeEntries, selfCalls>>
    /\ UNCHANGED <<tradeable, filterReturned, forecasts, selected,
                   schedCalls, notTrade>>

TradeNext ==
    \/ TradeInvoke
    \/ TradeFetch
    \/ TradeFilter
    \/ TradeScore
    \/ TradeSelect
    \/ TradeNoAction
    \/ TradeExecute

SpecTrade == TradeInit /\ [][TradeNext]_vars

-----------------------------------------------------------------------------
(* MockTrader.one_best_trade, the trade cycle of demo_cli.py *)

\* Prices, predictions, edges and sizes are in units of 0.0001; a
\* sentiment s is held as 1000 * s, which is also s * 0.1 in units of
\* 0.0001; spreads are in thousandths and volumes in dollars.

\* entries of DEMO_MARKETS: the first one of the file, two that differ in
\* price and category only, and one with more volume and a wider spread
DemoMarketPool ==
    {[id |-> "agi", category |-> "technology", price |-> 1500,
      volume |-> 125000, spread |-> 20],
     [id |-> "x", category |-> "cryptocurrency", price |-> 5000,
      volume |-> 100000, spread |-> 20],
     [id |-> "y", category |-> "energy", price |-> 2000,
      volume |-> 100000, spread |-> 20],
     [id |-> "z", category |-> "space", price |-> 5000,
      volume |-> 103000, spread |-> 100]}

DemoMarketLists ==
    UNION {{ms \in [1..n -> DemoMarketPool] :
               \A i \in 1..n : \A j \in 1..n : ms[i] = ms[j] => i = j}
           : n \in 1..MaxDemoMarkets}

\* DEMO_NEWS: per item the categories its content names and its sentiment
DemoNewsLists ==
    {<<>>,
     <<[mentions |-> {"cryptocurrency"}, sentiment |-> 800]>>,
     <<[mentions |-> {"energy"}, sentiment |-> -300]>>,
     <<[mentions |-> {"cryptocurrency", "space"}, sentiment |-> 800],
       [mentions |-> {"space"}, sentiment |-> -400]>>}

\* random.uniform(-0.05, 0.05)
Noises == {-500, -200, 0, 200, 500}

\* the key of line 231, x['volume'] / (1 + x['spread']): a has the greater
KeyGreaterVolumeOnly(a, b) == a.volume > b.volume

KeyGreater(a, b) == a.volume * (1000 + b.spread) > b.volume * (1000 + a.spread)

\* max(DEMO_MARKETS, key=...): the first item no other item's key exceeds
MaxByKey(ms) ==
    CHOOSE i \in 1..Len(ms) :
        /\ \A j \in 1..Len(ms) : ~KeyGreater(ms[j], ms[i])
        /\ \A j \in 1..(i - 1) : KeyGreater(ms[i], ms[j])

RECURSIVE SumSentiment(_)
SumSentiment(ns) ==
    IF ns = <<>> THEN 0 ELSE Head(ns).sentiment + SumSentiment(Tail(ns))

\* lines 238-239: the news whose content names the category, their mean
RelevantNews(ns, category) ==
    SelectSeq(ns, LAMBDA n : category \in n.mentions)

AvgSentiment(ns, category) ==
    LET rel == RelevantNews(ns, category)
    IN  IF rel = <<>> THEN 0 ELSE SumSentiment(rel) \div Len(rel)

\* line 246: max(0.05, min(0.95, price + avg_sentiment * 0.1 + noise))
Min(a, b) == IF a < b THEN a ELSE b

Max(a, b) == IF a > b THEN a ELSE b

Prediction(price, sentiment, noise) ==
    Max(PredictionFloor, Min(PredictionCeiling, price + sentiment + noise))

\* `if edge > 0.05:` (demo_cli.py 254, demo_auto.py 230) and
\* `if prediction['edge'] > 0.1:` (demo.py 371)
EnoughEdgeAlways(edge, minEdge) == TRUE

EnoughEdgeInclusive(edge, minEdge) == edge >= minEdge

EnoughEdge(edge, minEdge) == edge > minEdge

\* side = "BUY" if prediction > current price else "SELL"
SideReversed(prediction, price) == IF prediction < price THEN "BUY" ELSE "SELL"

Side(prediction, price) == IF prediction > price THEN "BUY" ELSE "SELL"

\* position_size = min(cap, amount)
PositionSizeUncapped(cap, amount) == amount

PositionSize(cap, amount) == Min(cap, amount)

\* lines 254-262: the trade signal for a prediction, or none
Signal(prediction, price) ==
    LET edge == Abs(prediction - price)
    IN  IF EnoughEdge(edge, MinEdgePct * 100)
        THEN [side |-> Side(prediction, price),
              size |-> PositionSize(MaxPositionSize, edge * 2)]
        ELSE [side |-> "none", size |-> 0]

MockInit ==
    /\ clock = 0
    /\ SchedIdle
    /\ ScanIdle
    /\ TradeIdle
    /\ DemoIdle
    /\ NewsIdle
    /\ FixIdle
    /\ mockPc = "discovery"
    /\ demoMarkets \in DemoMarketLists
    /\ demoNews \in DemoNewsLists
    /\ bestMarket = 0
    /\ avgSentiment = 0
    /\ aiPrediction = 0
    /\ tradeSignal = [side |-> "none", size |-> 0]

\* The body of one_best_trade is one straight run of six numbered sections,
\* each entered when the one before it has printed its lines; nothing in it
\* loops, returns early or catches an error.
SectionAfterRestarting(stage) ==
    CASE stage = "discovery"  -> "filtering"
      [] stage = "filtering"  -> "sentiment"
      [] stage = "sentiment"  -> "prediction"
      [] stage = "prediction" -> "execution"
      [] stage = "execution"  -> "discovery"
      [] OTHER                -> stage

SectionAfter(stage) ==
    CASE stage = "discovery"  -> "filtering"
      [] stage = "filtering"  -> "sentiment"
      [] stage = "sentiment"  -> "prediction"
      [] stage = "prediction" -> "execution"
      [] stage = "execution"  -> "complete"
      [] OTHER                -> stage

\* 1. market discovery
MockDiscover ==
    /\ mockPc = "discovery"
    /\ mockPc' = SectionAfter(mockPc)
    /\ clock' = clock + TickSeconds
    /\ UNCHANGED <<demoMarkets, demoNews, bestMarket, avgSentiment,
                   aiPrediction, tradeSignal, notMock>>

\* 2. filtering: best_market
MockSelect ==
    /\ mockPc = "filtering"
    /\ mockPc' = SectionAfter(mockPc)
    /\ clock' = clock + TickSeconds
    /\ bestMarket' = MaxByKey(demoMarkets)
    /\ UNCHANGED <<demoMarkets, demoNews, avgSentiment, aiPrediction,
                   tradeSignal, notMock>>

\* 3. sentiment analysis
MockSentiment ==
    /\ mockPc = "sentiment"
    /\ mockPc' = SectionAfter(mockPc)
    /\ clock' = clock + TickSeconds
    /\ avgSentiment' = AvgSentiment(demoNews, demoMarkets[bestMarket].category)
    /\ UNCHANGED <<demoMarkets, demoNews, bestMarket, aiPrediction,
                   tradeSignal, notMock>>

\* 4. prediction generation
MockPredict ==
    /\ mockPc = "prediction"
    /\ mockPc' = SectionAfter(mockPc)
    /\ clock' = clock + TickSeconds
    /\ \E noise \in Noises :
          aiPrediction' = Prediction(demoMarkets[bestMarket].price,
                                     avgSentiment, noise)
    /\ UNCHANGED <<demoMarkets, demoNews, bestMarket, avgSentiment,
                   tradeSignal, notMock>>

\* 5. trade execution, 6. risk management: the signal is printed, or the
\* "No trade" line
MockExecute ==
    /\ mockPc = "execution"
    /\ mockPc' = SectionAfter(mockPc)
    /\ tradeSignal' = Signal(aiPrediction, demoMarkets[bestMarket].price)
    /\ UNCHANGED <<clock, demoMarkets, demoNews, bestMarket, avgSentiment,
                   aiPrediction, notMock>>

MockNext ==
    \/ MockDiscover
    \/ MockSelect
    \/ MockSentiment
    \/ MockPredict
    \/ MockExecute

SpecMock == MockInit /\ [][MockNext]_vars

\* The function is called and runs to its return: every pause is a
\* time.sleep of one or two seconds, so a section that is entered is left.
SpecMockFair == SpecMock /\ WF_vars(MockNext)

-----------------------------------------------------------------------------
(* The prediction and trade execution sections of demo.py                  *)
(* (demo_ai_predictions, demo_trade_execution) and of demo_auto.py         *)
(* (run_automated_demo).  Confidences are in hundredths.  The pauses       *)
(* between the printed lines are left out: nothing reads the clock.        *)

DemoPrograms == {"demo", "demo_auto"}

\* the edge a prediction must exceed to be traded
MinEdgeOf(program) ==
    IF program = "demo" THEN DemoMinEdge ELSE MinEdgePct * 100

\* the largest position of one trade
MaxSizeOf(program) ==
    IF program = "demo" THEN MaxPositionSize ELSE AutoMaxPositionSize

\* market prices[0], for one to MaxDemoMarkets markets
DemoPriceLists ==
    UNION {[1..n -> {500, 5000}] : n \in 1..MaxDemoMarkets}

\* base rate plus adjustment, before it is clamped
RawPredictions == {200, 4000, 4500, 5000, 5500, 5600, 6000, 6500, 9800}

\* random.uniform(0.6, 0.9), random.uniform(0.65, 0.92)
Confidences == {70, 90}

\* one entry of ai_predictions
MakePrediction(raw, price, confidence) ==
    LET p == Max(PredictionFloor, Min(PredictionCeiling, raw))
    IN  [prediction |-> p, current_price |-> price, edge |-> Abs(p - price),
         confidence |-> confidence]

\* one trade of the execution loop
MakeTrade(program, pos, pred) ==
    [pos |-> pos,
     side |-> Side(pred.prediction, pred.current_price),
     size |-> PositionSize(MaxSizeOf(program),
                           (pred.edge * pred.confidence) \div 100)]

DemoInit ==
    /\ clock = 0
    /\ SchedIdle
    /\ ScanIdle
    /\ TradeIdle
    /\ MockIdle
    /\ NewsIdle
    /\ FixIdle
    /\ demoProgram \in DemoPrograms
    /\ demoPc = "predict"
    /\ demoPrices \in DemoPriceLists
    /\ predictions = <<>>
    /\ predIdx = 0
    /\ executedTrades = <<>>

\* the prediction loop: one market analysed
DemoPredict ==
    /\ demoPc = "predict"
    /\ Len(predictions) < Len(demoPrices)
    /\ \E raw \in RawPredictions, c \in Confidences :
          predictions' = Append(predictions,
                                MakePrediction(raw,
                                               demoPrices[Len(predictions) + 1],
                                               c))
    /\ UNCHANGED <<demoProgram, demoPc, demoPrices, predIdx, executedTrades,
                   notDemo>>

\* the prediction loop is over; the execution section starts
DemoStartExecution ==
    /\ demoPc = "predict"
    /\ Len(predictions) = Len(demoPrices)
    /\ demoPc' = "execute"
    /\ predIdx' = 1
    /\ UNCHANGED <<demoProgram, demoPrices, predictions, executedTrades,
                   notDemo>>

\* one iteration of the execution loop that trades
DemoTrade ==
    /\ demoPc = "execute"
    /\ predIdx <= Len(predictions)
    /\ EnoughEdge(predictions[predIdx].edge, MinEdgeOf(demoProgram))
    /\ executedTrades' = Append(executedTrades,
                                MakeTrade(demoProgram, predIdx,
                                          predictions[predIdx]))
    /\ predIdx' = predIdx + 1
    /\ UNCHANGED <<demoProgram, demoPc, demoPrices, predictions, notDemo>>

\* one iteration of the execution loop that does not trade
DemoHold ==
    /\ demoPc = "execute"
    /\ predIdx <= Len(predictions)
    /\ ~EnoughEdge(predictions[predIdx].edge, MinEdgeOf(demoProgram))
    /\ predIdx' = predIdx + 1
    /\ UNCHANGED <<demoProgram, demoPc, demoPrices, predictions,
                   executedTrades, notDemo>>

\* the execution loop is over
DemoFinish ==
    /\ demoPc = "execute"
    /\ predIdx > Len(predictions)
    /\ demoPc' = "complete"
    /\ UNCHANGED <<demoProgram, demoPrices, predictions, predIdx,
                   executedTrades, notDemo>>

DemoNext ==
    \/ DemoPredict
    \/ DemoStartExecution
    \/ DemoTrade
    \/ DemoHold
    \/ DemoFinish

\* one run of any of the three demo trade programs
SpecDemos == (MockInit \/ DemoInit) /\ [][MockNext \/ DemoNext]_vars

-----------------------------------------------------------------------------
(* MockNews.get_articles_for_cli_keywords (demo_cli.py).  An article is    *)
(* held as the set of lowercase keywords that occur in its title or its    *)
(* content; a returned list is held as positions in DEMO_NEWS.             *)

\* the keyword texts a caller may put between the commas
RawKeywords == {"AI", " bitcoin", "Mars", "Energy ", "football", ""}

KeywordInputs ==
    UNION {[1..n -> RawKeywords] : n \in 1..MaxKeywords}

\* k.strip().lower()
StripLower(k) ==
    CASE k = "AI"       -> "ai"
      [] k = " bitcoin" -> "bitcoin"
      [] k = "Mars"     -> "mars"
      [] k = "Energy "  -> "energy"
      [] OTHER          -> k

\* DEMO_NEWS, lowercased: "ai" occurs in the first article and, inside
\* "chairman", in the third
DEMO_NEWS ==
    << {"ai"}, {"bitcoin"}, {"ai"}, {"mars"}, {"energy"} >>

\* keyword in title.lower() or keyword in content.lower(): the empty text
\* occurs in every text
Occurs(keyword, article) == keyword = "" \/ keyword \in article

\* the inner loop: some keyword of the list occurs in the article
Matches(kl, article) == \E i \in 1..Len(kl) : Occurs(kl[i], article)

\* return relevant_news or DEMO_NEWS
OrAllNever(relevant, all) == relevant

OrAll(relevant, all) == IF relevant = <<>> THEN all ELSE relevant

NewsInit ==
    /\ clock = 0
    /\ SchedIdle
    /\ ScanIdle
    /\ TradeIdle
    /\ MockIdle
    /\ DemoIdle
    /\ FixIdle
    /\ newsPc = "called"
    /\ keywords \in KeywordInputs
    /\ keywordList = <<>>
    /\ articlePos = 0
    /\ relevantNews = <<>>
    /\ returnedNews = <<>>

\* keyword_list = [k.strip().lower() for k in keywords.split(',')]
NewsSplit ==
    /\ newsPc = "called"
    /\ keywordList' = [i \in 1..Len(keywords) |-> StripLower(keywords[i])]
    /\ articlePos' = 1
    /\ newsPc' = "loop"
    /\ UNCHANGED <<keywords, relevantNews, returnedNews, notNews>>

\* an article some keyword occurs in is appended
NewsKeep ==
    /\ newsPc = "loop"
    /\ articlePos <= Len(DEMO_NEWS)
    /\ Matches(keywordList, DEMO_NEWS[articlePos])
    /\ relevantNews' = Append(relevantNews, articlePos)
    /\ articlePos' = articlePos + 1
    /\ UNCHANGED <<newsPc, keywords, keywordList, returnedNews, notNews>>

\* an article no keyword occurs in is passed over
NewsPass ==
    /\ newsPc = "loop"
    /\ articlePos <= Len(DEMO_NEWS)
    /\ ~Matches(keywordList, DEMO_NEWS[articlePos])
    /\ articlePos' = articlePos + 1
    /\ UNCHANGED <<newsPc, keywords, keywordList, relevantNews, returnedNews,
                   notNews>>

\* return relevant_news or DEMO_NEWS
NewsReturn ==
    /\ newsPc = "loop"
    /\ articlePos > Len(DEMO_NEWS)
    /\ returnedNews' = OrAll(relevantNews,
                             [i \in 1..Len(DEMO_NEWS) |-> i])
    /\ newsPc' = "returned"
    /\ UNCHANGED <<keywords, keywordList, articlePos, relevantNews, notNews>>

NewsNext ==
    \/ NewsSplit
    \/ NewsKeep
    \/ NewsPass
    \/ NewsReturn

SpecNews == NewsInit /\ [][NewsNext]_vars

-----------------------------------------------------------------------------
(* fix_trade_module (fix_and_optimize.py).  The text of trade.py is held   *)
(* as its lines, a line as the one of the texts below that it contains:    *)
(*   filter_exact     filtered_markets = self.agent.filter_markets(markets) *)
(*   filter_other     another line with self.agent.filter_markets(markets) *)
(*   filter_fixed     ... = self.agent.filter_markets_for_trading(markets) *)
(*   source_exact     best_trade = self.agent.source_best_trade(market)    *)
(*   source_fixed     ... = self.agent.generate_trade_recommendation(market) *)
(*   except           except Exception as e:                               *)
(*   print_retry      print(f"Error {e} \n \n Retrying")                   *)
(*   self_call        self.one_best_trade(), twelve spaces in              *)
(*   self_call_other  self.one_best_trade(), indented otherwise            *)
(*   print_stop       print(f"Error {e} - stopping to prevent ...")        *)
(*   return_none      return None, twelve spaces in                        *)
(*   other            any other line                                       *)

TradeLines ==
    {"filter_exact", "filter_other", "filter_fixed", "source_exact",
     "source_fixed", "except", "print_retry", "self_call", "self_call_other",
     "print_stop", "return_none", "other"}

TradeTexts == UNION {[1..n -> TradeLines] : n \in 0..MaxLines}

TradeFiles ==
    {[exists |-> FALSE, text |-> <<>>]}
    \cup {[exists |-> TRUE, text |-> t] : t \in TradeTexts}

\* "<text>" in content
Contains(text, lines) == \E i \in 1..Len(text) : text[i] \in lines

\* str.replace(old, new): every occurrence of old, from the left, without
\* overlap
RECURSIVE Replace(_, _, _)
Replace(text, old, new) ==
    IF Len(text) < Len(old) THEN text
    ELSE IF SubSeq(text, 1, Len(old)) = old
    THEN new \o Replace(SubSeq(text, Len(old) + 1, Len(text)), old, new)
    ELSE <<Head(text)>> \o Replace(Tail(text), old, new)

\* the second argument of the replace at lines 27-30
FilterFixedKeepingOld == <<"filter_fixed", "filter_exact">>

FilterFixed == <<"filter_fixed">>

\* lines 26-31
FixFilterCall(text) ==
    IF Contains(text, {"filter_exact", "filter_other"})
    THEN [text |-> Replace(text, <<"filter_exact">>, FilterFixed),
          said |-> {"fixed_filter"}]
    ELSE [text |-> text, said |-> {}]

\* lines 34-39
FixSourceCall(text) ==
    IF Contains(text, {"source_exact"})
    THEN [text |-> Replace(text, <<"source_exact">>, <<"source_fixed">>),
          said |-> {"fixed_source"}]
    ELSE [text |-> text, said |-> {}]

\* lines 42-47: the two-line text replaced is the print line followed by the
\* call twelve spaces in
FixHandler(text) ==
    IF /\ Contains(text, {"except"})
       /\ Contains(text, {"self_call", "self_call_other"})
    THEN [text |-> Replace(text, <<"print_retry", "self_call">>,
                           <<"print_stop", "return_none">>),
          said |-> {"fixed_recursion"}]
    ELSE [text |-> text, said |-> {}]

FixInit ==
    /\ clock = 0
    /\ SchedIdle
    /\ ScanIdle
    /\ TradeIdle
    /\ MockIdle
    /\ DemoIdle
    /\ NewsIdle
    /\ fixPc = "called"
    /\ tradeFile \in TradeFiles
    /\ content = <<>>
    /\ fixLog = {}
    /\ fixRuns = 1
    /\ fileBefore = <<tradeFile.text>>

\* lines 16-18: no trade.py, print and return
FixNotFound ==
    /\ fixPc = "called"
    /\ ~tradeFile.exists
    /\ fixLog' = {"not_found"}
    /\ fixPc' = "returned"
    /\ UNCHANGED <<tradeFile, content, fixRuns, fileBefore, notFix>>

\* lines 20-24: the file is read
FixRead ==
    /\ fixPc = "called"
    /\ tradeFile.exists
    /\ content' = tradeFile.text
    /\ fixLog' = {"fixing"}
    /\ fixPc' = "filter"
    /\ UNCHANGED <<tradeFile, fixRuns, fileBefore, notFix>>

FixFilterStep ==
    /\ fixPc = "filter"
    /\ content' = FixFilterCall(content).text
    /\ fixLog' = fixLog \cup FixFilterCall(content).said
    /\ fixPc' = "source"
    /\ UNCHANGED <<tradeFile, fixRuns, fileBefore, notFix>>

FixSourceStep ==
    /\ fixPc = "source"
    /\ content' = FixSourceCall(content).text
    /\ fixLog' = fixLog \cup FixSourceCall(content).said
    /\ fixPc' = "handler"
    /\ UNCHANGED <<tradeFile, fixRuns, fileBefore, notFix>>

FixHandlerStep ==
    /\ fixPc = "handler"
    /\ content' = FixHandler(content).text
    /\ fixLog' = fixLog \cup FixHandler(content).said
    /\ fixPc' = "write"
    /\ UNCHANGED <<tradeFile, fixRuns, fileBefore, notFix>>

\* lines 50-53: the content is written back
FixWrite ==
    /\ fixPc = "write"
    /\ tradeFile' = [exists |-> TRUE, text |-> content]
    /\ fixLog' = fixLog \cup {"completed"}
    /\ fixPc' = "returned"
    /\ UNCHANGED <<content, fixRuns, fileBefore, notFix>>

\* the script is run again on the file as the last run left it
FixAgain ==
    /\ fixPc = "returned"
    /\ fixRuns < MaxFixRuns
    /\ fixRuns' = fixRuns + 1
    /\ fileBefore' = Append(fileBefore, tradeFile.text)
    /\ content' = <<>>
    /\ fixLog' = {}
    /\ fixPc' = "called"
    /\ UNCHANGED <<tradeFile, notFix>>

FixNext ==
    \/ FixNotFound
    \/ FixRead
    \/ FixFilterStep
    \/ FixSourceStep
    \/ FixHandlerStep
    \/ FixWrite
    \/ FixAgain

SpecFix == FixInit /\ [][FixNext]_vars

-----------------------------------------------------------------------------
(* Scheduler.start *)

SleepDurations == {TickSeconds, HourSeconds, DaySeconds - HourSeconds, DaySeconds}

JobDurations == {TickSeconds, DaySeconds}

\* where the main thread is once a job function has been called: the call
\* is synchronous, the loop waits in it
PcAfterInvokeDetached == "dispatch"

PcAfterInvoke == "in_job"

Init ==
    /\ clock = 0
    /\ startOffset \in {d * DaySeconds : d \in 0..(WeekDays - 1)}
    /\ jobs = RegisteredJobs(startOffset)
    /\ pc = "run_pending"
    /\ pending = <<>>
    /\ executing = <<>>
    /\ jobElapsed = 0
    /\ passLog = <<>>
    /\ passSnap = jobs
    /\ passNow = 0
    /\ ticks = 0
    /\ stopCause = "none"
    /\ abandoned = <<>>
    /\ ScanIdle
    /\ TradeIdle
    /\ MockIdle
    /\ DemoIdle
    /\ NewsIdle
    /\ FixIdle

\* self.schedule.run_pending(): collect and sort the runnable jobs
RunPending ==
    /\ pc = "run_pending"
    /\ pending' = Runnable(jobs, clock)
    /\ passLog' = <<>>
    /\ passSnap' = jobs
    /\ passNow' = clock
    /\ pc' = "dispatch"
    /\ UNCHANGED <<clock, startOffset, jobs, executing, jobElapsed, ticks,
                   stopCause, abandoned,
                   notSched>>

\* run_pending calls the next job function
JobStart ==
    /\ pc = "dispatch"
    /\ pending # <<>>
    /\ executing' = Append(executing, Head(pending))
    /\ passLog' = Append(passLog, Head(pending))
    /\ pending' = Tail(pending)
    /\ jobElapsed' = 0
    /\ pc' = PcAfterInvoke
    /\ UNCHANGED <<clock, startOffset, jobs, passSnap, passNow, ticks,
                   stopCause, abandoned,
                   notSched>>

\* the job function blocks in its gateway calls
JobWork ==
    /\ pc = "in_job"
    /\ jobElapsed = 0
    /\ \E d \in JobDurations :
          /\ clock' = clock + d
          /\ jobElapsed' = d
    /\ UNCHANGED <<startOffset, jobs, pc, pending, executing, passLog,
                   passSnap, passNow, ticks, stopCause, abandoned,
                   notSched>>

\* the job function returns: last_run and next_run are set from the clock
JobReturn ==
    /\ pc = "in_job"
    /\ executing # <<>>
    /\ jobs' = Rescheduled(jobs, executing[Len(executing)], clock,
                            startOffset)
    /\ executing' = SubSeq(executing, 1, Len(executing) - 1)
    /\ jobElapsed' = 0
    /\ pc' = "dispatch"
    /\ UNCHANGED <<clock, startOffset, pending, passLog, passSnap, passNow,
                   ticks, stopCause, abandoned,
                   notSched>>

\* the job function raises: nothing between the job and the interpreter's
\* top level catches it (start has no handler, __main__ catches only
\* KeyboardInterrupt)
JobRaise ==
    /\ pc = "in_job"
    /\ executing # <<>>
    /\ MayRaise(jobs[executing[Len(executing)]])
    /\ executing' = SubSeq(executing, 1, Len(executing) - 1)
    /\ jobElapsed' = 0
    /\ pc' = "crashed"
    /\ stopCause' = "exception"
    /\ UNCHANGED <<clock, startOffset, jobs, pending, passLog, passSnap,
                   passNow, ticks, abandoned,
                   notSched>>

\* run_pending returns to start
PassEnd ==
    /\ pc = "dispatch"
    /\ pending = <<>>
    /\ pc' = "sleep"
    /\ UNCHANGED <<clock, startOffset, jobs, pending, executing, jobElapsed,
                   passLog, passSnap, passNow, ticks, stopCause, abandoned,
                   notSched>>

\* time.sleep(1): at least one second passes
Sleep ==
    /\ pc = "sleep"
    /\ ticks < MaxTicks
    /\ \E d \in SleepDurations : clock' = clock + d
    /\ ticks' = ticks + 1
    /\ pc' = "run_pending"
    /\ UNCHANGED <<startOffset, jobs, pending, executing, jobElapsed,
                   passLog, passSnap, passNow, stopCause, abandoned,
                   notSched>>

\* SIGINT: KeyboardInterrupt is raised in the main thread wherever it is,
\* unwinds every frame up to __main__, which prints and ends
Interrupt ==
    /\ pc \in {"run_pending", "dispatch", "in_job", "sleep"}
    /\ abandoned' = executing
    /\ executing' = <<>>
    /\ pc' = "stopped"
    /\ stopCause' = "interrupt"
    /\ UNCHANGED <<clock, startOffset, jobs, pending, jobElapsed, passLog,
                   passSnap, passNow, ticks,
                   notSched>>

Next ==
    \/ RunPending
    \/ JobStart
    \/ JobWork
    \/ JobReturn
    \/ JobRaise
    \/ PassEnd
    \/ Sleep
    \/ Interrupt

Spec == Init /\ [][Next]_vars

-----------------------------------------------------------------------------
(* Claims about the scheduler loop, checked under Spec *)

\* C1: an exception raised by a job callable during run_pending() never
\* leaves the loop; the loop ends only on an external interrupt, never
\* because a job raised.
C1_JobExceptionContained ==
    /\ pc # "crashed"
    /\ stopCause # "exception"

\* C4: at every moment at most one job callable is executing; a job never
\* starts while another job, or an earlier execution of the same job, has
\* not returned, however long a job runs.
C4_AtMostOneJobExecuting ==
    /\ Len(executing) <= 1
    /\ (pc = "in_job") = (Len(executing) = 1)

\* a job has been running for longer than the hourly cadence while another
\* job is due and waits
C4_SlowJobDelaysDueJob ==
    /\ pc = "in_job"
    /\ Len(executing) = 1
    /\ jobElapsed > HourSeconds
    /\ \E j \in 1..Len(jobs) :
          /\ j \notin Range(executing)
          /\ ShouldRun(jobs[j], clock)

\* C5: a job that a pass finds overdue, by any amount, is invoked exactly
\* once in that pass, and when it returns its next-fire instant is set
\* strictly later than the time of the return, so that it is due again only
\* for a later window.
C5_OverdueJobFiresOnce ==
    \A j \in 1..Len(jobs) :
        /\ Count(passLog, j) <= 1
        /\ jobs[j].last_run # Never => jobs[j].next_run > jobs[j].last_run
        /\ j \in Range(passLog) =>
              /\ passSnap[j].next_run <= passNow
              /\ passSnap[j].last_run < passSnap[j].next_run

\* the hourly job was overdue by at least two whole periods when the pass
\* started, has run once and has been rescheduled
C5_LongOverdueFired ==
    /\ pc = "sleep"
    /\ Count(passLog, 2) = 1
    /\ passNow - passSnap[2].next_run >= 2 * HourSeconds
    /\ jobs[2].last_run >= passNow
    /\ jobs[2].next_run > jobs[2].last_run

C7_InterruptWaitsForJob ==
    stopCause = "interrupt" => abandoned = <<>>

(* Claims about the expiration scan, checked under SpecScan *)

\* C8: an active market whose end date parses, once the loop has examined
\* it, is in the report if and only if 0 <= days_remaining <= threshold,
\* and every report item has days_remaining in that range; a market at -1
\* or threshold + 1 days is not reported.
C8_ReportedIffInWindow ==
    /\ \A i \in 1..Len(markets) :
          (i < idx /\ markets[i].active /\ ParseEnd(markets[i].end).status = "ok") =>
              LET d == (ParseEnd(markets[i].end).instant - now) \div DaySeconds
              IN  (\E k \in 1..Len(reports) : reports[k].pos = i)
                      <=> (0 <= d /\ d <= threshold)
    /\ \A k \in 1..Len(reports) :
          /\ 0 <= reports[k].days_remaining
          /\ reports[k].days_remaining <= threshold

\* a finished scan that reported a market at exactly threshold days and
\* passed over an active, parseable one at -1 or threshold + 1 days
C8_WindowEdgesScanned ==
    /\ scanPc = "done"
    /\ \E k \in 1..Len(reports) : reports[k].days_remaining = threshold
    /\ \E i \in 1..Len(markets) :
          /\ markets[i].active
          /\ ParseEnd(markets[i].end).status = "ok"
          /\ (ParseEnd(markets[i].end).instant - now) \div DaySeconds
                \in {-1, threshold + 1}
          /\ \A k \in 1..Len(reports) : reports[k].pos # i

\* C9: a market with active = false never appears in the report, whatever
\* its end date, and no news request is made for it.
C9_InactiveNeverReported ==
    \A i \in 1..Len(markets) :
        ~markets[i].active =>
            /\ \A k \in 1..Len(reports) : reports[k].pos # i
            /\ \A k \in 1..Len(newsLog) : newsLog[k].pos # i

\* a finished scan that passed over an inactive market ending inside the
\* window and reported another market
C9_InactiveInWindowScanned ==
    /\ scanPc = "done"
    /\ Len(reports) >= 1
    /\ \E i \in 1..Len(markets) :
          /\ ~markets[i].active
          /\ ParseEnd(markets[i].end).status = "ok"
          /\ (ParseEnd(markets[i].end).instant - now) \div DaySeconds
                \in 0..threshold

\* C10: a market whose end value cannot be turned into an instant
\* (malformed text, missing value, wrong type) is skipped and the scan goes
\* on; the scan never aborts because of one record.
C10_BadEndNeverAborts ==
    scanPc = "raised" => scanErr # "AttributeError"

\* C11: for an included market, an outcome-price payload that is not the
\* text of a list of numbers (not a list, a list with a non-numeric element,
\* text that does not parse, a value that is not a string) gives that
\* market an empty odds list; the market is still reported.
C11_MalformedOddsEmpty ==
    \A i \in 1..Len(markets) :
        (/\ i < idx \/ (i = idx /\ scanPc = "raised")
         /\ markets[i].active
         /\ ParseEnd(markets[i].end).status = "ok"
         /\ (ParseEnd(markets[i].end).instant - now) \div DaySeconds
               \in 0..threshold
         /\ markets[i].outcome_prices \in MalformedPrices) =>
            \E k \in 1..Len(reports) :
                /\ reports[k].pos = i
                /\ reports[k].odds = <<>>

\* C12: a scan calls get_all_markets exactly once; when that call fails
\* the scan ends there with nothing fetched, no report item and no news
\* request, the call is not repeated and no exception leaves the scan.
C12_FetchOnce ==
    /\ fetchCalls <= 1
    /\ scanPc # "start" => fetchCalls = 1
    /\ scanOutcome = "fetch_error" =>
          /\ scanPc = "done"
          /\ markets = <<>>
          /\ reports = <<>>
          /\ newsLog = <<>>
          /\ scanErr = "none"

\* a scan whose only call of get_all_markets failed
C12_FetchFailed ==
    /\ scanPc = "done"
    /\ scanOutcome = "fetch_error"
    /\ fetchCalls = 1

\* C13: when the news request for an included market fails, that market's
\* report item is still emitted, with no articles; every other included
\* market keeps the articles its own request returned, and the scan goes on.
C13_NewsFailureContained ==
    /\ Len(newsLog) = Len(reports)
    /\ \A k \in 1..Len(reports) :
          /\ newsLog[k].pos = reports[k].pos
          /\ reports[k].news_articles =
                IF newsLog[k].resp.ok THEN newsLog[k].resp.articles ELSE <<>>

\* a finished scan whose first news request failed and whose second
\* returned articles
C13_FailedThenServed ==
    /\ scanPc = "done"
    /\ Len(reports) = 2
    /\ ~newsLog[1].resp.ok
    /\ reports[1].news_articles = <<>>
    /\ newsLog[2].resp.ok
    /\ reports[2].news_articles # <<>>

\* C14: the report items are the qualifying markets (active, end date
\* parsed, 0 <= days_remaining <= threshold) among those the loop has
\* examined, each exactly once and in the order get_all_markets returned
\* them; the printed listing keeps that order and is not sorted by days
\* remaining.
C14_ReportKeepsFetchOrder ==
    /\ \A k \in 1..Len(reports) : \A j \in 1..Len(reports) :
          k < j => reports[k].pos < reports[j].pos
    /\ {reports[k].pos : k \in 1..Len(reports)} =
          {i \in 1..Len(markets) :
              /\ i < idx
              /\ markets[i].active
              /\ ParseEnd(markets[i].end).status = "ok"
              /\ (ParseEnd(markets[i].end).instant - now) \div DaySeconds
                    \in 0..threshold}
    /\ scanOutcome = "report" =>
          /\ Len(listing) = Len(reports)
          /\ \A k \in 1..Len(reports) : listing[k].pos = reports[k].pos
    /\ scanOutcome # "report" => listing = <<>>

\* a printed listing of two markets, the one with more days remaining
\* first because get_all_markets returned it first
C14_LaterExpiryListedFirst ==
    /\ scanOutcome = "report"
    /\ Len(listing) = 2
    /\ listing[1].pos < listing[2].pos
    /\ listing[1].days_remaining > listing[2].days_remaining

\* C15: a scan that has ended has printed exactly one of the four
\* outcomes (fetch error, no markets found, nothing expiring, report
\* listing) and printed none before it ended; when the fetched list is not
\* empty and no market qualified, the outcome is "nothing expiring".
C15_OneExplicitOutcome ==
    /\ scanPc \in {"start", "scan"} => scanOutcome = "none"
    /\ scanPc \in {"done", "raised"} =>
          /\ scanOutcome \in {"fetch_error", "no_markets", "nothing_expiring",
                               "report"}
          /\ (markets # <<>> /\ reports = <<>>) =>
                scanOutcome = "nothing_expiring"
          /\ scanOutcome = "report" => listing # <<>>

\* C16: a scan that starts at 2023-12-20T00:00:00Z with threshold 35
\* reports an active market whose end is "2024-01-01T00:00:00Z", with
\* days_remaining = 12.
C16_ScenarioTwelveDays ==
    \A i \in 1..Len(markets) :
        (/\ i < idx
         /\ now = 0
         /\ threshold = DefaultThreshold
         /\ markets[i].active
         /\ markets[i].end = ScenarioEnd) =>
            \E k \in 1..Len(reports) :
                /\ reports[k].pos = i
                /\ reports[k].expiration_date = ScenarioEnd
                /\ reports[k].days_remaining = 12

\* a finished scan that listed the market of the scenario
C16_ScenarioListed ==
    /\ scanOutcome = "report"
    /\ threshold = DefaultThreshold
    /\ now = 0
    /\ \E k \in 1..Len(listing) :
          /\ listing[k].expiration_date = ScenarioEnd
          /\ listing[k].days_remaining = 12

\* C17: for an end value that ends in the letter Z, the instant the scan
\* works with is the one read from the text with that last Z replaced by
\* +00:00, and it carries an offset: an examined active market with such
\* an end value is reported exactly when that instant lies in the window,
\* with days_remaining counted from it.
C17_TrailingZIsUtc ==
    \A i \in 1..Len(markets) :
        (/\ i < idx
         /\ markets[i].active
         /\ markets[i].end.form \in {"Z", "ZZ"}) =>
            LET e == markets[i].end
                lastZReplaced ==
                    [e EXCEPT !.form = IF e.form = "Z" THEN "utc" ELSE "Zutc"]
                ref == FromIsoFormat(lastZReplaced)
                d == (ref.wall - ref.offset - now) \div DaySeconds
            IN  /\ ref.status = "ok"
                /\ ref.aware
                /\ ParseEnd(e).status = "ok"
                /\ ParseEnd(e).aware
                /\ ParseEnd(e).instant = ref.wall - ref.offset
                /\ (0 <= d /\ d <= threshold) =>
                      \E k \in 1..Len(reports) :
                          reports[k].pos = i /\ reports[k].days_remaining = d

\* C18: an end value without offset is read as UTC (offset zero); every
\* end instant the scan compares with `now` carries an offset, so the
\* subtraction never meets a reading without one.
C18_NaiveEndIsUtc ==
    /\ \A i \in 1..Len(markets) :
          ParseEnd(markets[i].end).status = "ok" =>
              ParseEnd(markets[i].end).aware
    /\ scanPc = "raised" =>
          ~(markets[idx].end.form = "naive" /\ scanErr = "TypeError")
    /\ \A i \in 1..Len(markets) :
          (/\ i < idx
           /\ markets[i].active
           /\ markets[i].end.form = "naive") =>
              LET d == (markets[i].end.t - now) \div DaySeconds
              IN  (0 <= d /\ d <= threshold) =>
                      \E k \in 1..Len(reports) :
                          reports[k].pos = i /\ reports[k].days_remaining = d

\* a finished scan that listed a market whose end value has no offset and
\* reads exactly threshold days after `now`
C18_NaiveEndListed ==
    /\ scanOutcome = "report"
    /\ \E k \in 1..Len(listing) :
          /\ listing[k].expiration_date.form = "naive"
          /\ listing[k].expiration_date.t = now + threshold * DaySeconds
          /\ listing[k].days_remaining = threshold

-----------------------------------------------------------------------------
(* Claims about the trade cycle, checked under SpecTrade *)

C19_NothingTradeableNoAction ==
    (filterReturned /\ tradeable = <<>>) =>
        /\ tradePc \in {"NO_ACTION", "DONE"}
        /\ forecasts = <<>>
        /\ selected = 0
        /\ execLog = <<>>
        /\ selfCalls = 0
        /\ tradeOutcome = IF tradePc = "DONE" THEN "no_action" ELSE "none"

\* a cycle that ended with "no action" because nothing was tradeable
C19_EmptyFilterEnded ==
    /\ tradePc = "DONE"
    /\ filterReturned
    /\ tradeable = <<>>
    /\ tradeOutcome = "no_action"

-----------------------------------------------------------------------------
(* Claims about the trade cycle of demo_cli.py, checked under SpecMock *)

-----------------------------------------------------------------------------
(* Claims about the three demo trade programs, checked under SpecDemos *)

\* C21: a prediction whose edge is below the minimum edge is not traded,
\* and one whose edge is not below it (an edge exactly equal to it
\* included) gives exactly one trade.
C21_TradedFromThreshold ==
    /\ mockPc = "complete" =>
          LET edge == Abs(aiPrediction - demoMarkets[bestMarket].price)
          IN  /\ edge < MinEdgePct * 100 => tradeSignal.side = "none"
              /\ edge >= MinEdgePct * 100 => tradeSignal.side # "none"
    /\ \A i \in 1..Len(predictions) :
          (demoPc \in {"execute", "complete"} /\ i < predIdx) =>
              LET n == Cardinality({k \in 1..Len(executedTrades) :
                                       executedTrades[k].pos = i})
              IN  /\ predictions[i].edge < MinEdgeOf(demoProgram) => n = 0
                  /\ predictions[i].edge >= MinEdgeOf(demoProgram) => n = 1

\* C21 as amended: a prediction whose edge is not above the minimum edge
\* (an edge exactly equal to it included) is not traded, and one whose edge
\* is above it gives exactly one trade.
C21_TradedAboveThreshold ==
    /\ mockPc = "complete" =>
          LET edge == Abs(aiPrediction - demoMarkets[bestMarket].price)
          IN  /\ edge <= MinEdgePct * 100 => tradeSignal.side = "none"
              /\ edge > MinEdgePct * 100 => tradeSignal.side # "none"
    /\ \A i \in 1..Len(predictions) :
          (demoPc \in {"execute", "complete"} /\ i < predIdx) =>
              LET n == Cardinality({k \in 1..Len(executedTrades) :
                                       executedTrades[k].pos = i})
              IN  /\ predictions[i].edge <= MinEdgeOf(demoProgram) => n = 0
                  /\ predictions[i].edge > MinEdgeOf(demoProgram) => n = 1

\* a completed cycle of MockTrader whose edge was exactly the minimum edge
\* and which printed no trade signal
C21_EdgeAtThresholdNotTraded ==
    /\ mockPc = "complete"
    /\ Abs(aiPrediction - demoMarkets[bestMarket].price) = MinEdgePct * 100
    /\ tradeSignal.side = "none"

\* C22: the size of every trade signal and of every trade is at most the
\* maximum portfolio fraction, 0.10, whatever the edge and the confidence.
C22_SizeCapped ==
    /\ tradeSignal.size <= MaxPositionSize
    /\ \A k \in 1..Len(executedTrades) :
          executedTrades[k].size <= MaxPositionSize

\* a finished execution loop with a trade whose edge times confidence was
\* above the cap and whose size is the cap of its program
C22_CapApplied ==
    /\ demoPc = "complete"
    /\ \E k \in 1..Len(executedTrades) :
          LET pred == predictions[executedTrades[k].pos]
          IN  /\ (pred.edge * pred.confidence) \div 100 > MaxPositionSize
              /\ executedTrades[k].size = MaxSizeOf(demoProgram)

\* C23: every trade signal and every trade has side BUY exactly when the
\* prediction is strictly greater than the market price, and SELL otherwise.
C23_SideFollowsPrediction ==
    /\ tradeSignal.side # "none" =>
          tradeSignal.side =
              IF aiPrediction > demoMarkets[bestMarket].price
              THEN "BUY" ELSE "SELL"
    /\ \A k \in 1..Len(executedTrades) :
          LET pred == predictions[executedTrades[k].pos]
          IN  executedTrades[k].side =
                  IF pred.prediction > pred.current_price
                  THEN "BUY" ELSE "SELL"

\* a completed cycle of MockTrader that printed a SELL signal for a
\* prediction below the price
C23_SellBelowPrice ==
    /\ mockPc = "complete"
    /\ tradeSignal.side = "SELL"
    /\ aiPrediction < demoMarkets[bestMarket].price


(* C24 *)
\* A change of section in one_best_trade, and what it may touch: the best
\* market is chosen on leaving section 2, the sentiment on leaving section 3,
\* the prediction on leaving section 4 and the signal on leaving section 5.
C24_SectionStep ==
    /\ mockPc' # mockPc =>
          <<mockPc, mockPc'>> \in {<<"discovery", "filtering">>,
                                   <<"filtering", "sentiment">>,
                                   <<"sentiment", "prediction">>,
                                   <<"prediction", "execution">>,
                                   <<"execution", "complete">>}
    /\ bestMarket' # bestMarket => mockPc = "filtering"
    /\ avgSentiment' # avgSentiment => mockPc = "sentiment"
    /\ aiPrediction' # aiPrediction => mockPc = "prediction"
    /\ tradeSignal' # tradeSignal => mockPc = "execution"
    /\ mockPc = "complete" => UNCHANGED mockVars

JobIdentity(job) ==
    [func |-> job.func, unit |-> job.unit, start_day |-> job.start_day]

\* C25: the registry always holds exactly two jobs, the weekly Monday
\* one_best_trade job and the hourly check_and_report_expiring_markets job,
\* in the order of their registration; ticks and job executions change
\* nothing of a job but its fire instants.
C25_RegistryFixed ==
    /\ Len(jobs) = 2
    /\ JobIdentity(jobs[1]) =
          [func |-> "one_best_trade", unit |-> "weeks", start_day |-> Monday]
    /\ JobIdentity(jobs[2]) =
          [func |-> "check_and_report_expiring_markets", unit |-> "hours",
           start_day |-> NoDay]

\* Both jobs have run and have been given a new next-fire instant.
C25_BothJobsRescheduled ==
    /\ \A j \in 1..2 :
          /\ jobs[j].last_run # Never
          /\ jobs[j].next_run # RegisteredJobs(startOffset)[j].next_run
    /\ ticks > 0


-----------------------------------------------------------------------------
(* Claims about the mock news client, checked under SpecNews *)

\* some keyword of the call occurs in the article at position i of DEMO_NEWS
C27_Matching(i) ==
    \E k \in 1..Len(keywords) : Occurs(StripLower(keywords[k]), DEMO_NEWS[i])

\* C27 as stated: the list returned holds only articles that match a keyword,
\* and is empty when no article matches.
C27_OnlyMatchingReturned ==
    newsPc = "returned" =>
        \A n \in 1..Len(returnedNews) : C27_Matching(returnedNews[n])

\* C27, amended: when some article matches a keyword the list returned is
\* exactly the matching articles, each once, in the order of DEMO_NEWS; when
\* no article matches it is all of DEMO_NEWS.
C27_MatchingOrAllReturned ==
    newsPc = "returned" =>
        LET all == [i \in 1..Len(DEMO_NEWS) |-> i]
        IN  IF \E i \in 1..Len(DEMO_NEWS) : C27_Matching(i)
            THEN returnedNews = SelectSeq(all, C27_Matching)
            ELSE returnedNews = all

\* A call whose keywords occur in no article has returned every article.
C27_AllReturnedOnNoMatch ==
    /\ newsPc = "returned"
    /\ \A i \in 1..Len(DEMO_NEWS) : ~C27_Matching(i)
    /\ Len(returnedNews) = Len(DEMO_NEWS)


-----------------------------------------------------------------------------
(* Claims about the expiration scan, checked under SpecScan (continued) *)

\* the answer the news client gave to the request made for market k
C28_Response(k) ==
    newsLog[CHOOSE l \in 1..Len(newsLog) : newsLog[l].pos = k].resp

\* the report sequence as a function of the market list, the news answers,
\* the threshold and `now`: the items of the first k markets
RECURSIVE C28_ReportOf(_)
C28_ReportOf(k) ==
    IF k = 0 THEN <<>>
    ELSE LET m == markets[k]
             e == ParseEnd(m.end)
             days == DaysUntil(e.instant, now)
             before == C28_ReportOf(k - 1)
         IN  IF /\ m.active
                /\ e.status = "ok"
                /\ e.aware
                /\ 0 <= days
                /\ days <= threshold
             THEN Append(before,
                         ReportItem(m, k, days, FetchNews(C28_Response(k))))
             ELSE before

\* C28: the report sequence of a cycle is determined by the market list, the
\* news answers, the threshold and `now` of that cycle alone, whatever an
\* earlier cycle built and however much time has passed: while markets are
\* examined it is the sequence for the markets examined so far, at the end it
\* is the sequence for the whole list and the listing printed is made of it;
\* a cycle that gets no market list reports nothing.
C28_ReportIsFunctionOfInputs ==
    /\ (scanPc \in {"scan", "raised", "done"} /\ markets # <<>>) =>
           reports = C28_ReportOf(idx - 1)
    /\ (scanPc = "done" /\ markets # <<>>) =>
           /\ idx = Len(markets) + 1
           /\ listing = Listing(C28_ReportOf(Len(markets)))
    /\ (scanPc = "done" /\ markets = <<>>) => reports = <<>>

\* A cycle whose news requests took time has finished with a report of two
\* items, which is the sequence its inputs determine.
C28_ReportAfterEarlierCycle ==
    /\ scanPc = "done"
    /\ earlier = <<>>
    /\ clock > now
    /\ Len(reports) = 2
    /\ reports = C28_ReportOf(Len(markets))


\* the end instant of the market at position i of the list
C29_EndInstant(i) == ParseEnd(markets[i].end).instant

\* C29: every report item's days_remaining is the whole-day difference
\* between its market's end instant and the one `now` of the scan, however
\* much time the news requests for earlier markets took; two reported
\* markets with the same end instant have the same days_remaining.
C29_OneReferenceInstant ==
    /\ \A k \in 1..Len(reports) :
          reports[k].days_remaining =
              DaysUntil(C29_EndInstant(reports[k].pos), now)
    /\ \A k \in 1..Len(reports) : \A j \in 1..Len(reports) :
          C29_EndInstant(reports[k].pos) = C29_EndInstant(reports[j].pos) =>
              reports[k].days_remaining = reports[j].days_remaining

\* Two markets with the same end instant are reported, the second one
\* examined a day after `now` was read because the news request for the
\* first took that long.
C29_SameEndAfterSlowNews ==
    /\ Len(reports) = 2
    /\ C29_EndInstant(reports[1].pos) = C29_EndInstant(reports[2].pos)
    /\ C29_EndInstant(reports[1].pos) = threshold * DaySeconds
    /\ clock >= now + DaySeconds
    /\ reports[2].days_remaining = threshold


-----------------------------------------------------------------------------
(* Claims about the scheduler loop, checked under Spec (continued) *)

-----------------------------------------------------------------------------
(* Claims about fix_trade_module, checked under SpecFix *)

\* the exception handler of the text calls self.one_best_trade(): the call
\* stands on a line after the `except Exception as e:` line
C31_HandlerCallsSelf(text) ==
    \E i \in 1..Len(text) : \E j \in 1..Len(text) :
        /\ i < j
        /\ text[i] = "except"
        /\ text[j] \in {"self_call", "self_call_other"}

\* C31: whenever fix_trade_module has printed 'Fixed infinite recursion in
\* error handling', the file it wrote back has no exception handler that
\* calls self.one_best_trade().
C31_ReportedFixIsMade ==
    (fixPc = "returned" /\ "fixed_recursion" \in fixLog) =>
        ~C31_HandlerCallsSelf(tradeFile.text)


-----------------------------------------------------------------------------
(* Claims about the expiration scan, checked under SpecScan (continued) *)

\* C32: every report item, and the block printed for it, carries the id,
\* the question and the end value of its market exactly as get_all_markets
\* supplied them: the end value is the original text, not the text with Z
\* replaced nor the parsed instant.
C32_ItemCarriesMarketFields ==
    /\ \A k \in 1..Len(reports) :
          LET m == markets[reports[k].pos]
          IN  /\ reports[k].market_id = m.id
              /\ reports[k].question = m.question
              /\ reports[k].expiration_date = m.end
    /\ \A k \in 1..Len(listing) :
          LET m == markets[listing[k].pos]
          IN  /\ listing[k].market_id = m.id
              /\ listing[k].question = m.question
              /\ listing[k].expiration_date = m.end

\* A market whose end text ends in Z is reported and listed with that text.
C32_ZEndListedAsSupplied ==
    /\ scanPc = "done"
    /\ \E k \in 1..Len(listing) :
          /\ markets[listing[k].pos].end.form = "Z"
          /\ listing[k].expiration_date.form = "Z"
          /\ listing[k].pos = 2


\* C33: the block printed for a report lists at most three articles: all of
\* them when the report has fewer than three, otherwise the first three in
\* the order the news client returned them, followed by one "... and N
\* more." line with N = total - 3 (which is 0 for exactly three articles).
C33_AtMostThreeListed ==
    scanPc = "done" =>
        /\ Len(listing) = Len(reports)
        /\ \A k \in 1..Len(listing) :
              LET arts == reports[k].news_articles
              IN  /\ Len(listing[k].shown) <= 3
                  /\ Len(arts) < 3 =>
                        /\ listing[k].shown = arts
                        /\ listing[k].more = NoMoreLine
                  /\ Len(arts) >= 3 =>
                        /\ listing[k].shown = SubSeq(arts, 1, 3)
                        /\ listing[k].more = Len(arts) - 3

\* The listing has a block for a report with exactly three articles, with
\* the "... and 0 more." line, and one for a report with four.
C33_ThreeAndFourArticlesListed ==
    /\ scanPc = "done"
    /\ Len(listing) = 2
    /\ Len(reports[1].news_articles) = 3
    /\ listing[1].more = 0
    /\ Len(reports[2].news_articles) = 4
    /\ listing[2].more = 1


\* an active market at position i whose end parses, examined by the loop,
\* with its end d seconds after `now`
C34_Examined(i) ==
    /\ i < idx
    /\ markets[i].active
    /\ ParseEnd(markets[i].end).status = "ok"

C34_SecondsLeft(i) == ParseEnd(markets[i].end).instant - now

\* C34: of the examined active markets whose end parses, one that ended
\* before `now`, even by one second, is not reported; one that ends less
\* than a day after `now` is reported with days_remaining = 0; one that
\* ends threshold days and up to 23h59m59s after `now` is reported with
\* days_remaining = threshold.
C34_FloorOfWholeDays ==
    \A i \in 1..Len(markets) :
        C34_Examined(i) =>
            LET s == C34_SecondsLeft(i)
                item(d) == \E k \in 1..Len(reports) :
                               /\ reports[k].pos = i
                               /\ reports[k].days_remaining = d
            IN  /\ s < 0 => \A k \in 1..Len(reports) : reports[k].pos # i
                /\ (0 <= s /\ s < DaySeconds) => item(0)
                /\ (threshold * DaySeconds <= s
                      /\ s < (threshold + 1) * DaySeconds) => item(threshold)

\* A finished scan passed over a market that ended one second before `now`
\* and reported one ending a second short of threshold + 1 days.
C34_SecondBeforeAndLastSecond ==
    /\ scanPc = "done"
    /\ Len(markets) = 2
    /\ C34_Examined(1)
    /\ C34_SecondsLeft(1) = -1
    /\ C34_Examined(2)
    /\ C34_SecondsLeft(2) = (threshold + 1) * DaySeconds - 1
    /\ Len(reports) = 1
    /\ reports[1].days_remaining = threshold


\* C35: at every moment of a cycle the requests made to the news client are
\* as many as the report items, the k-th request was made for the market of
\* the k-th item with that market's question as the query, and each was
\* made for an active market whose end parses and lies inside the window.
C35_OneRequestPerItem ==
    /\ Len(newsLog) = Len(reports)
    /\ \A k \in 1..Len(newsLog) :
          LET m == markets[newsLog[k].pos]
              e == ParseEnd(m.end)
              d == (e.instant - now) \div DaySeconds
          IN  /\ newsLog[k].pos = reports[k].pos
              /\ newsLog[k].query = m.question
              /\ \A j \in 1..Len(newsLog) :
                    newsLog[j].pos = newsLog[k].pos => j = k
              /\ m.active
              /\ e.status = "ok"
              /\ 0 <= d
              /\ d <= threshold

\* A finished scan of three kinds of market made one request: for the one
\* market it reported, not for the inactive one ending inside the window.
C35_RequestOnlyForIncluded ==
    /\ scanPc = "done"
    /\ Len(markets) = 2
    /\ ~markets[1].active
    /\ ParseEnd(markets[1].end).status = "ok"
    /\ ParseEnd(markets[1].end).instant = now
    /\ Len(newsLog) = 1
    /\ newsLog[1].pos = 2
    /\ Len(reports) = 1


\* C36: the odds of every report item are either the empty list or one float
\* for each element of the list its market's outcome_prices text denotes,
\* in the same order; a text with a non-numeric element gives the empty
\* list, never the floats of the other elements.
C36_OddsAllOrNothing ==
    \A k \in 1..Len(reports) :
        LET p == markets[reports[k].pos].outcome_prices
            odds == reports[k].odds
        IN  /\ \/ odds = <<>>
               \/ /\ p.kind = "list"
                  /\ Len(odds) = Len(p.elems)
                  /\ \A j \in 1..Len(odds) :
                        /\ p.elems[j].type \in {"int", "float", "bool"}
                        /\ odds[j] = ToFloat(p.elems[j])
            /\ (p.kind = "list"
                  /\ \E j \in 1..Len(p.elems) : p.elems[j].type = "str")
                  => odds = <<>>

\* One report item has empty odds for a list text with a number and a
\* string, another has both floats of '[True, 0.5]'.
C36_EmptyAndFullOdds ==
    /\ Len(reports) = 2
    /\ Len(markets) = 2
    /\ markets[1].outcome_prices.kind = "list"
    /\ Len(markets[1].outcome_prices.elems) = 2
    /\ markets[1].outcome_prices.elems[2].type = "str"
    /\ reports[1].odds = <<>>
    /\ Len(markets[2].outcome_prices.elems) = 2
    /\ markets[2].outcome_prices.elems[1].type = "bool"
    /\ reports[2].odds = <<100, 50>>


\* C37: a call of fix_trade_module that follows another call leaves
\* trade.py with the text the earlier call left, whatever the text was
\* before the first call, and a file that does not exist is not created.
C37_SecondCallChangesNothing ==
    (fixPc = "returned" /\ fixRuns >= 2) =>
        /\ tradeFile.text = fileBefore[fixRuns]
        /\ tradeFile.exists = ("not_found" \notin fixLog)

\* The first call rewrote the retrying handler, the second call has
\* returned and the text is as the first call left it.
C37_SecondCallAfterFix ==
    /\ fixPc = "returned"
    /\ fixRuns = 2
    /\ fileBefore[1] = <<"except", "print_retry", "self_call">>
    /\ fileBefore[2] = <<"except", "print_stop", "return_none">>
    /\ tradeFile.text = fileBefore[2]


-----------------------------------------------------------------------------
(* Claims about the three demo trade programs, checked under SpecDemos      *)
(* (continued)                                                             *)

\* C38: a prediction equal to the market price is never traded, so every
\* trade signal and every trade with side SELL has its prediction strictly
\* below the price.
C38_NoTradeAtZeroEdge ==
    /\ (mockPc = "complete"
          /\ aiPrediction = demoMarkets[bestMarket].price) =>
              tradeSignal.side = "none"
    /\ tradeSignal.side = "SELL" =>
          aiPrediction < demoMarkets[bestMarket].price
    /\ \A k \in 1..Len(executedTrades) :
          LET pred == predictions[executedTrades[k].pos]
          IN  /\ pred.prediction # pred.current_price
              /\ executedTrades[k].side = "SELL" =>
                    pred.prediction < pred.current_price

\* A finished execution loop that passed over a prediction equal to the
\* price and sold on another one.
C38_EqualPassedOverOtherSold ==
    /\ demoPc = "complete"
    /\ \E i \in 1..Len(predictions) :
          /\ predictions[i].prediction = predictions[i].current_price
          /\ \A k \in 1..Len(executedTrades) : executedTrades[k].pos # i
    /\ \E k \in 1..Len(executedTrades) : executedTrades[k].side = "SELL"

=============================================================================
